---- MODULE Spec2Model ----
(***************************************************************************)
(* Model of the content-rewriting service:                                 *)
(*   - server/storage.ts : DatabaseStorage, the persistence adapter        *)
(*   - the OpenAI service: rewriteContentWithSEO, the prompt builder and   *)
(*     response normalizer                                                 *)
(* Two specifications share the variables: StorageSpec runs the adapter's  *)
(* operations for two concurrent callers against the tables, RewriteSpec   *)
(* runs one call of rewriteContentWithSEO over enumerated inputs.          *)
(***************************************************************************)
EXTENDS Integers, Sequences, FiniteSets, TLC

VARIABLES
    configs,        \* table configs: set of rows
    rewriteHistory, \* table rewriteHistory: set of rows
    users,          \* table users: set of rows
    serial,         \* store-assigned ids, one counter per table
    clock,          \* the reading new Date() gives, in milliseconds
    spc,            \* per caller: where its adapter call is suspended
    local,          \* per caller: the locals of the suspended call
    ret,            \* what the last completed adapter call returned
    cfgDone,        \* history: rows returned by completed saveConfig calls
    cfgClean,       \* history: every saveConfig so far ran alone and completed
    histDone,       \* history: rows returned by saveRewriteHistory, in order
    writes,         \* history: number of writing calls started
    rpc,            \* rewriteContentWithSEO: position of the call
    args,           \* rewriteContentWithSEO: the arguments and environment
    realCaseStudies,\* rewriteContentWithSEO: local realCaseStudies
    calls,          \* number of requests sent to the text-generation endpoint
    reply,          \* what the endpoint answered: the content or the error
    outcome         \* rewriteContentWithSEO: what the call returned or threw

storeVars == <<configs, rewriteHistory, users, serial, clock, spc, local, ret,
               cfgDone, cfgClean, histDone, writes>>
rewriteVars == <<rpc, args, realCaseStudies, calls, reply, outcome>>
vars == <<configs, rewriteHistory, users, serial, clock, spc, local, ret,
          cfgDone, cfgClean, histDone, writes, rpc, args, realCaseStudies, calls, reply,
          outcome>>

(***************************************************************************)
(* Bounds of the model.                                                    *)
(***************************************************************************)
MaxWrites == 3       \* saveConfig, saveRewriteHistory and createUser calls started
MaxClock == 1        \* clock readings 0..MaxClock

(***************************************************************************)
(* JavaScript values.                                                      *)
(***************************************************************************)
Undefined == [t |-> "undefined"]
Num(n) == [t |-> "num", v |-> n]

Min(a, b) == IF a < b THEN a ELSE b
Max(a, b) == IF a > b THEN a ELSE b

(***************************************************************************)
(* server/storage.ts                                                       *)
(***************************************************************************)
\* two requests may be in flight at once, each suspended at its awaits
Callers == {"c1", "c2"}

ConfigData == {"cfgA", "cfgB"}
HistoryData == {[seoScore |-> 40, wordCount |-> 3],
                [seoScore |-> 0, wordCount |-> 301]}
Usernames == {"ana"}
\* the limits getRewriteHistory is called with; Undefined: the argument is left out
Limits == { Undefined, Num(0), Num(1), Num(2) }

\* db.select().from(t).orderBy(desc(t.col)): every order of the rows the
\* engine may produce, a row with the greatest key first, rows with equal
\* keys in either order.
RECURSIVE OrderByDesc(_, _)
OrderByDesc(rows, col) ==
    IF rows = {} THEN { <<>> }
    ELSE UNION { { <<r>> \o s : s \in OrderByDesc(rows \ {r}, col) } :
                 r \in { x \in rows : \A y \in rows : x[col] >= y[col] } }

\* .limit(n)
Limit(s, n) == SubSeq(s, 1, Min(n, Len(s)))

\* const [x] = <rows>; return x || undefined
FirstOrUndefined(s) == IF Len(s) > 0 THEN s[1] ELSE Undefined

\* a delete that removes nothing
DeleteNone(table) == table

\* db.delete(configs): no where clause, every row goes
DeleteAll(table) == {}

\* DatabaseStorage.getConfig: the values the call may return
getConfigResults ==
    { FirstOrUndefined(Limit(s, 1)) : s \in OrderByDesc(configs, "updatedAt") }

\* DatabaseStorage.getRewriteHistory(limit = 10): the values it may return
DefaultLimit == 10
getRewriteHistoryResults(limit) ==
    LET n == IF limit = Undefined THEN DefaultLimit ELSE limit.v IN
    { Limit(s, n) : s \in OrderByDesc(rewriteHistory, "createdAt") }

RECURSIVE SumOf(_, _)
SumOf(rows, col) ==
    IF rows = {} THEN 0
    ELSE LET r == CHOOSE x \in rows : TRUE IN r[col] + SumOf(rows \ {r}, col)

\* Math.round(x / y) for x >= 0, y > 0
RoundDiv(x, y) == (2 * x + y) \div (2 * y)

\* DatabaseStorage.getStats
getStatsResult ==
    LET n == Cardinality(rewriteHistory) IN
    [ totalRewrites |-> n,
      avgSeoScore |-> IF n > 0 THEN RoundDiv(SumOf(rewriteHistory, "seoScore"), n) ELSE 0,
      totalWordCount |-> SumOf(rewriteHistory, "wordCount") ]

Idle == [op |-> "idle"]
SaveConfigInFlight == { p \in Callers : spc[p] = "saveConfig_insert" }

InitStore ==
    /\ configs = {}
    /\ rewriteHistory = {}
    /\ users = {}
    /\ serial = [configs |-> 1, rewriteHistory |-> 1, users |-> 1]
    /\ clock = 0
    /\ spc = [p \in Callers |-> "idle"]
    /\ local = [p \in Callers |-> Idle]
    /\ ret = Idle
    /\ cfgDone = <<>>
    /\ cfgClean = TRUE
    /\ histDone = <<>>
    /\ writes = 0

\* time passes
Tick ==
    /\ clock < MaxClock
    /\ clock' = clock + 1
    /\ UNCHANGED <<configs, rewriteHistory, users, serial, spc, local, ret,
                   cfgDone, cfgClean, histDone, writes>>

getUser(p) ==
    /\ spc[p] = "idle"
    /\ \E id \in 1..serial.users :
         LET rows == { u \in users : u.id = id } IN
         ret' =
                   [op |-> "getUser",
                    val |-> IF rows = {} THEN Undefined ELSE CHOOSE u \in rows : TRUE]
    /\ UNCHANGED <<configs, rewriteHistory, users, serial, clock, spc, local,
                   cfgDone, cfgClean, histDone, writes>>

getUserByUsername(p) ==
    /\ spc[p] = "idle"
    /\ \E name \in Usernames :
         LET rows == { u \in users : u.username = name } IN
         \E r \in (IF rows = {} THEN {Undefined} ELSE rows) :
            ret' = [op |-> "getUserByUsername", val |-> r]
    /\ UNCHANGED <<configs, rewriteHistory, users, serial, clock, spc, local,
                   cfgDone, cfgClean, histDone, writes>>

createUser(p) ==
    /\ spc[p] = "idle"
    /\ writes < MaxWrites
    /\ \E name \in Usernames :
         LET user == [id |-> serial.users, username |-> name] IN
         /\ users' = users \cup {user}
         /\ ret' = [op |-> "createUser", val |-> user]
    /\ serial' = [serial EXCEPT !.users = @ + 1]
    /\ UNCHANGED <<configs, rewriteHistory, clock, spc, local,
                   cfgDone, cfgClean, histDone>>
    /\ writes' = writes + 1

getConfig(p) ==
    /\ spc[p] = "idle"
    /\ \E r \in getConfigResults :
         ret' = [op |-> "getConfig", val |-> r]
    /\ UNCHANGED <<configs, rewriteHistory, users, serial, clock, spc, local,
                   cfgDone, cfgClean, histDone, writes>>

\* saveConfig up to its first await: the delete runs, the call is suspended
\* (deleted is history: the rows this delete removed)
saveConfig_delete(p) ==
    /\ spc[p] = "idle"
    /\ writes < MaxWrites
    /\ \E configData \in ConfigData :
         local' = [local EXCEPT ![p] = [op |-> "saveConfig", configData |-> configData,
                                       deleted |-> configs]]
    /\ configs' = DeleteAll(configs)
    /\ spc' = [spc EXCEPT ![p] = "saveConfig_insert"]
    /\ cfgClean' = (cfgClean /\ SaveConfigInFlight = {})
    /\ UNCHANGED <<rewriteHistory, users, serial, clock, ret, cfgDone, histDone>>
    /\ writes' = writes + 1

\* saveConfig resumed: the insert runs and the stored row is returned
saveConfig_insert(p) ==
    /\ spc[p] = "saveConfig_insert"
    /\ LET config == [id |-> serial.configs,
                      data |-> local[p].configData,
                      updatedAt |-> clock] IN
         /\ configs' = configs \cup {config}
         /\ ret' = [op |-> "saveConfig", val |-> config]
         /\ cfgDone' = Append(cfgDone, config)
    /\ serial' = [serial EXCEPT !.configs = @ + 1]
    /\ spc' = [spc EXCEPT ![p] = "idle"]
    /\ local' = [local EXCEPT ![p] = Idle]
    /\ UNCHANGED <<rewriteHistory, users, clock, cfgClean, histDone, writes>>

\* saveConfig resumed, but the insert is rejected by the store (or the process
\* dies): the error propagates, nothing is inserted
saveConfig_insertFails(p) ==
    /\ spc[p] = "saveConfig_insert"
    /\ ret' = [op |-> "saveConfig", threw |-> TRUE]
    /\ spc' = [spc EXCEPT ![p] = "idle"]
    /\ local' = [local EXCEPT ![p] = Idle]
    /\ cfgClean' = FALSE
    /\ UNCHANGED <<configs, rewriteHistory, users, serial, clock, cfgDone, histDone, writes>>

\* saveRewriteHistory up to its await: createdAt is read from the clock when
\* the values are built, then the call is suspended on the insert
saveRewriteHistory_call(p) ==
    /\ spc[p] = "idle"
    /\ writes < MaxWrites
    /\ \E historyData \in HistoryData :
         local' = [local EXCEPT ![p] =
                     [op |-> "saveRewriteHistory",
                      values |-> [seoScore |-> historyData.seoScore,
                                  wordCount |-> historyData.wordCount,
                                  createdAt |-> clock]]]
    /\ spc' = [spc EXCEPT ![p] = "saveRewriteHistory_insert"]
    /\ UNCHANGED <<configs, rewriteHistory, users, serial, clock, ret,
                   cfgDone, cfgClean, histDone>>
    /\ writes' = writes + 1

\* saveRewriteHistory resumed: the insert runs and the stored row is returned
saveRewriteHistory_insert(p) ==
    /\ spc[p] = "saveRewriteHistory_insert"
    /\ LET history == [id |-> serial.rewriteHistory,
                       seoScore |-> local[p].values.seoScore,
                       wordCount |-> local[p].values.wordCount,
                       createdAt |-> local[p].values.createdAt] IN
         /\ rewriteHistory' = rewriteHistory \cup {history}
         /\ ret' = [op |-> "saveRewriteHistory", val |-> history]
         /\ histDone' = Append(histDone, history)
    /\ serial' = [serial EXCEPT !.rewriteHistory = @ + 1]
    /\ spc' = [spc EXCEPT ![p] = "idle"]
    /\ local' = [local EXCEPT ![p] = Idle]
    /\ UNCHANGED <<configs, users, clock, cfgDone, cfgClean, writes>>

getRewriteHistory(p) ==
    /\ spc[p] = "idle"
    /\ \E limit \in Limits :
         \E r \in getRewriteHistoryResults(limit) :
            ret' = [op |-> "getRewriteHistory", limit |-> limit, val |-> r]
    /\ UNCHANGED <<configs, rewriteHistory, users, serial, clock, spc, local,
                   cfgDone, cfgClean, histDone, writes>>

getStats(p) ==
    /\ spc[p] = "idle"
    /\ ret' = [op |-> "getStats", val |-> getStatsResult]
    /\ UNCHANGED <<configs, rewriteHistory, users, serial, clock, spc, local,
                   cfgDone, cfgClean, histDone, writes>>

(***************************************************************************)
(* rewriteContentWithSEO: JavaScript strings are sequences of characters,  *)
(* other values carry their type.                                          *)
(***************************************************************************)
Null == [t |-> "null"]
Str(s) == [t |-> "str", v |-> s]
Bool(b) == [t |-> "bool", v |-> b]
Arr(a) == [t |-> "arr", v |-> a]
Obj(fields) == [t |-> "obj", v |-> fields]
NoFields == [f \in {} |-> Undefined]

\* the truthiness || and ?: test
Truthy(x) ==
    CASE x.t \in {"undefined", "null"} -> FALSE
      [] x.t = "num" -> x.v # 0
      [] x.t = "str" -> Len(x.v) > 0
      [] x.t = "bool" -> x.v
      [] OTHER -> TRUE

\* a || b
Or(a, b) == IF Truthy(a) THEN a ELSE b

\* x.f for x neither null nor undefined (reading those throws a TypeError);
\* none of the names read here is a property of a string, number or array
Get(x, f) == IF x.t = "obj" /\ f \in DOMAIN x.v THEN x.v[f] ELSE Undefined

\* x?.f
OptGet(x, f) == IF x.t \in {"undefined", "null"} THEN Undefined ELSE Get(x, f)

Returns(value) == [threw |-> FALSE, value |-> value]
Throws(isError, message) == [threw |-> TRUE, isError |-> isError, message |-> message]

UpperCase == <<"A","B","C","D","E","F","G","H","I","J","K","L","M",
               "N","O","P","Q","R","S","T","U","V","W","X","Y","Z">>
LowerCase == <<"a","b","c","d","e","f","g","h","i","j","k","l","m",
               "n","o","p","q","r","s","t","u","v","w","x","y","z">>

\* String.prototype.toLowerCase
toLowerCase(s) ==
    [i \in 1..Len(s) |->
        IF \E k \in 1..Len(UpperCase) : UpperCase[k] = s[i]
        THEN LowerCase[CHOOSE k \in 1..Len(UpperCase) : UpperCase[k] = s[i]]
        ELSE s[i]]

\* the characters \s matches, among those the model's texts hold
IsWhitespace(c) == c \in {" ", "\n", "\t"}

\* s.split(/\s+/).length: one piece more than there are maximal runs of
\* whitespace; a run at either end of s borders an empty piece, and the
\* empty string splits into one empty piece
splitLength(s) ==
    1 + Cardinality({ i \in 1..Len(s) :
                        IsWhitespace(s[i]) /\ (i = 1 \/ ~IsWhitespace(s[i - 1])) })

\* new RegExp(pattern, 'g') throws a SyntaxError for a pattern that opens
\* with a quantifier; the keywords of the model hold no other malformed pattern
regExpIsValid(pattern) == pattern = <<>> \/ pattern[1] \notin {"+", "*", "?"}

\* one pattern character against one text character: "." matches any
\* character but a line break, every other character matches itself
atomMatches(p, c) == IF p = "." THEN c # "\n" ELSE p = c

matchesAt(text, pattern, i) ==
    /\ i + Len(pattern) - 1 <= Len(text)
    /\ \A k \in 1..Len(pattern) : atomMatches(pattern[k], text[i + k - 1])

\* the positions of text at which pattern matches
matchStarts(text, pattern) ==
    { i \in 1..(Len(text) + 1) : matchesAt(text, pattern, i) }

\* the matches a scan from position i on takes: the leftmost one, then those
\* of the scan resumed after its end
RECURSIVE scanCount(_, _, _)
scanCount(starts, width, i) ==
    LET later == { j \in starts : j >= i } IN
    IF later = {} THEN 0
    ELSE LET first == CHOOSE j \in later : \A k \in later : j <= k IN
         1 + scanCount(starts, width, first + width)

\* text.match(new RegExp(pattern, 'g')).length, 0 for null: the matches found
\* scanning left to right, each search resuming after the previous match (one
\* character on after an empty match); matches of at most one character
\* cannot overlap, so every matching position is taken
matchCount(text, pattern) ==
    IF Len(pattern) <= 1 THEN Cardinality(matchStarts(text, pattern))
    ELSE scanCount(matchStarts(text, pattern), Len(pattern), 1)

\* (text.toLowerCase().match(new RegExp(keyword.toLowerCase(), 'g')) || []).length
keywordOccurrences(text, targetKeyword) ==
    matchCount(toLowerCase(text), toLowerCase(targetKeyword))

Digit == <<"0","1","2","3","4","5","6","7","8","9">>
RECURSIVE digits(_)
digits(n) == IF n < 10 THEN <<Digit[n + 1]>> ELSE Append(digits(n \div 10), Digit[(n % 10) + 1])

\* ((a / b) * 100).toFixed(1) for a >= 0, b > 0: the quotient to the nearest
\* tenth, an exact half rounding up, written with one fractional digit
toFixed1Percent(a, b) ==
    LET tenths == (2 * 1000 * a + b) \div (2 * b) IN
    digits(tenths \div 10) \o <<".">> \o <<Digit[(tenths % 10) + 1]>>

\* wordCount > 0 ? (...).toFixed(1) + '%' : '0%'
keywordDensityOf(occurrences, wordCount) ==
    IF wordCount > 0 THEN toFixed1Percent(occurrences, wordCount) \o <<"%">>
    ELSE <<"0","%">>

\* Math.min(100, Math.max(1, occurrences * 10 + (wordCount > 300 ? 20 : 10)))
seoScoreOf(occurrences, wordCount) ==
    Min(100, Max(1, occurrences * 10 + (IF wordCount > 300 THEN 20 ELSE 10)))

\* wordCount > 500 ? "Boa" : "Regular"
readabilityOf(wordCount) == IF wordCount > 500 THEN <<"B","o","a">> ELSE <<"R","e","g","u","l",
        "a","r">>

MetaDescriptionMax == 155
FaqMax == 8
CaseStudiesMax == 3

\* x?.substring(0, n): undefined for null and undefined, the first n
\* characters of a string, a TypeError for anything else
optSubstring(x, n) ==
    CASE x.t \in {"undefined", "null"} -> Returns(Undefined)
      [] x.t = "str" -> Returns(Str(SubSeq(x.v, 1, Min(n, Len(x.v)))))
      [] OTHER -> Throws(TRUE, <<"r","e","s","u","l","t",".","m","e","t","a","D","e","s","c","r",
              "i","p","t","i","o","n","?",".","s","u","b","s","t","r","i","n","g"," ","i","s",
                      " ","n","o","t"," ","a"," ","f","u","n","c","t","i","o","n">>)

\* x?.slice(0, n): arrays and strings both have slice
optSlice(x, n, name) ==
    CASE x.t \in {"undefined", "null"} -> Returns(Undefined)
      [] x.t = "str" -> Returns(Str(SubSeq(x.v, 1, Min(n, Len(x.v)))))
      [] x.t = "arr" -> Returns(Arr(SubSeq(x.v, 1, Min(n, Len(x.v)))))
      [] OTHER -> Throws(TRUE, <<"r","e","s","u","l","t",".">> \o name \o <<"?",".","s","l","i",
              "c","e"," ","i","s"," ","n","o","t"," ","a"," ","f","u","n","c","t","i","o","n">>)

defaultMetaDescription(targetKeyword) ==
    Str(targetKeyword \o <<" ","-"," ","r","e","s","u","m","o"," ","o","t","i","m","i","z","a",
            "d","o"," ","p","a","r","a"," ","S","E","O">>)

defaultFeaturedImage(targetKeyword) ==
    Obj([ title |-> Str(<<"I","m","a","g","e","m"," ","s","o","b","r","e"," ">> \o targetKeyword),
      altText |-> Str(targetKeyword \o <<" ","-"," ","i","m","a","g","e","m"," ","i","l","u","s",
              "t","r","a","t","i","v","a">>),
      keywords |-> Arr(<<Str(targetKeyword)>>) ])

defaultFaq(targetKeyword) ==
    Arr(<< Obj([ question |-> Str(<<"O"," ","q","u","e"," ","é"," ">> \o targetKeyword \o <<"?">>),
                 answer |-> Str(<<"R","e","s","p","o","s","t","a"," ","b","a","s","e","a","d",
                         "a"," ","n","o"," ","c","o","n","t","e","ú","d","o"," ","r","e","e","s",
                                 "c","r","i","t","o",".">>) ]) >>)

defaultRichContent ==
    Obj([ suggestedGraphics |-> Arr(<<>>),
          suggestedImages |-> Arr(<<>>),
          visualElements |-> Arr(<<>>) ])

defaultEntities ==
    Obj([ brands |-> Arr(<<>>), people |-> Arr(<<>>),
          locations |-> Arr(<<>>), concepts |-> Arr(<<>>) ])

defaultSchemaMarkup ==
    Obj([ articleSchema |-> Bool(TRUE), authorSchema |-> Bool(FALSE),
          faqSchema |-> Bool(FALSE), organizationSchema |-> Bool(FALSE),
          reviewSchema |-> Bool(FALSE) ])

\* authorName ? `Biografia do autor ${authorName}` : undefined
defaultAuthorBio(authorName) ==
    IF Truthy(authorName) THEN Str(<<"B","i","o","g","r","a","f","i","a"," ","d","o"," ","a","u",
            "t","o","r"," ">> \o authorName.v) ELSE Undefined

\* companyName ? { title, text, buttonText } : undefined
defaultCtaSection(companyName, targetKeyword) ==
    IF Truthy(companyName)
    THEN Obj([ title |-> Str(<<"T","r","a","n","s","f","o","r","m","e"," ","s","e","u"," ","n",
            "e","g","ó","c","i","o"," ","c","o","m"," ">> \o targetKeyword),
               text |-> Str(<<"A"," ">> \o companyName.v \o <<" ","é"," ","e","s","p","e","c",
                       "i","a","l","i","s","t","a"," ","e","m"," ">>
                            \o targetKeyword
                            \o <<" ","e"," ","p","o","d","e"," ","a","j","u","d","a","r"," ","v",
                                    "o","c","ê"," ","a"," ","a","l","c","a","n","ç","a","r"," ",
                                            "o","s"," ","m","e","s","m","o","s"," ","r","e","s",
                                                    "u","l","t","a","d","o","s","."," ","E","n",
                                                            "t","r","e"," ","e","m"," ","c","o",
                                                                    "n","t","a","t","o"," ","c",
                                                                            "o","n","o","s","c",
                                                                                    "o"," ","h",
                                                                                            "o",
                                                                                                    "j","e"," ","m","e","s","m","o","!">>),
               buttonText |-> Str(<<"F","a","l","a","r"," ","c","o","m"," ">> \o companyName.v) ])
    ELSE Undefined


\* error.message.includes(needle)
includes(s, needle) ==
    \E i \in 1..(Len(s) - Len(needle) + 1) : SubSeq(s, i, i + Len(needle) - 1) = needle

ConfigurationErrorMessage ==
    <<"C","h","a","v","e"," ","d","e"," ","A","P","I"," ","d","o"," ","O","p","e","n","A","I",
            " ","n","ã","o"," ","c","o","n","f","i","g","u","r","a","d","a","."," ","C","o","n",
                    "f","i","g","u","r","e"," ","n","a","s"," ","c","o","n","f","i","g","u","r",
                            "a","ç","õ","e","s"," ","d","a"," ","a","p","l","i","c","a","ç","ã",
                                    "o",".">>
EmptyReplyMessage == <<"R","e","s","p","o","s","t","a"," ","v","a","z","i","a"," ","d","a"," ",
        "A","P","I"," ","O","p","e","n","A","I">>
ApiKeyMessage == <<"C","h","a","v","e"," ","d","a"," ","A","P","I"," ","O","p","e","n","A","I",
        " ","n","ã","o"," ","c","o","n","f","i","g","u","r","a","d","a"," ","c","o","r","r","e",
                "t","a","m","e","n","t","e">>
QuotaMessage == <<"L","i","m","i","t","e"," ","d","a"," ","A","P","I"," ","O","p","e","n","A",
        "I"," ","e","x","c","e","d","i","d","o","."," ","T","e","n","t","e"," ","n","o","v","a",
                "m","e","n","t","e"," ","m","a","i","s"," ","t","a","r","d","e">>
RateLimitMessage == <<"M","u","i","t","a","s"," ","r","e","q","u","i","s","i","ç","õ","e","s",
        "."," ","A","g","u","a","r","d","e"," ","a","l","g","u","n","s"," ","m","i","n","u","t",
                "o","s"," ","e"," ","t","e","n","t","e"," ","n","o","v","a","m","e","n","t","e">>
GenericPrefix == <<"E","r","r","o"," ","n","o"," ","p","r","o","c","e","s","s","a","m","e","n",
        "t","o"," ","d","o"," ","c","o","n","t","e","ú","d","o",":"," ">>
UnknownErrorText == <<"E","r","r","o"," ","d","e","s","c","o","n","h","e","c","i","d","o">>
DummyKey == <<"d","u","m","m","y","-","k","e","y">>

\* what the engine puts in the message of new RegExp's SyntaxError
regExpErrorMessage(pattern) ==
    <<"I","n","v","a","l","i","d"," ","r","e","g","u","l","a","r"," ","e","x","p","r","e","s",
            "s","i","o","n",":"," ","/">> \o pattern \o <<"/",":"," ","N","o","t","h","i","n",
                    "g"," ","t","o"," ","r","e","p","e","a","t">>

\* the catch block of rewriteContentWithSEO: every error thrown inside the
\* try is classified by its text and a new Error is thrown to the caller
catchAndRethrow(error) ==
    IF error.isError /\ includes(error.message, <<"A","P","I"," ","k","e","y">>)
        THEN Throws(TRUE, ApiKeyMessage)
    ELSE IF error.isError /\ includes(error.message, <<"q","u","o","t","a">>)
        THEN Throws(TRUE, QuotaMessage)
    ELSE IF error.isError /\ includes(error.message, <<"r","a","t","e"," ","l","i","m","i","t">>)
        THEN Throws(TRUE, RateLimitMessage)
    ELSE Throws(TRUE, GenericPrefix \o
                      (IF error.isError THEN error.message ELSE UnknownErrorText))

\* apiKey || process.env.OPENAI_API_KEY
openaiApiKeyOf(apiKey, envKey) == Or(apiKey, envKey)

\* !openaiApiKey || openaiApiKey === "dummy-key"
credentialMissing(openaiApiKey) ==
    ~Truthy(openaiApiKey) \/ openaiApiKey = Str(DummyKey)

\* JSON.parse(content): a reply that is a JSON document is held as the value
\* it denotes, any other text makes JSON.parse throw a SyntaxError
Json(value) == [t |-> "json", v |-> value]
jsonParses(content) == content.t = "json"

\* the catch of the JSON.parse: the raw reply taken as the rewritten text
parseFailureResult(content, targetKeyword, authorName, companyName, caseStudies) ==
    LET wordCount == splitLength(content)
        pattern == toLowerCase(targetKeyword)
    IN
    IF ~regExpIsValid(pattern) THEN Throws(TRUE, regExpErrorMessage(pattern))
    ELSE
    LET occurrences == keywordOccurrences(content, targetKeyword) IN
    Returns([
        rewrittenContent |-> Str(content),
        helpfulnessScore |-> Num(85),
        qualityScore |-> Num(80),
        eatScore |-> Num(75),
        structureScore |-> Num(82),
        aiOptimizationScore |-> Num(78),
        richContent |-> defaultRichContent,
        citations |-> Arr(<<>>),
        internalLinking |-> Arr(<<>>),
        entities |-> defaultEntities,
        schemaMarkup |-> defaultSchemaMarkup,
        wordCount |-> Num(wordCount),
        keywordDensity |-> Str(keywordDensityOf(occurrences, wordCount)),
        seoScore |-> Num(seoScoreOf(occurrences, wordCount)),
        readabilityScore |-> Str(readabilityOf(wordCount)),
        metaDescription |-> defaultMetaDescription(targetKeyword),
        featuredImage |-> defaultFeaturedImage(targetKeyword),
        faq |-> defaultFaq(targetKeyword),
        caseStudies |-> Arr(caseStudies),
        authorBio |-> defaultAuthorBio(authorName),
        ctaSection |-> defaultCtaSection(companyName, targetKeyword) ])

\* the statements after a successful JSON.parse
successResult(result, targetKeyword, authorName, companyName, caseStudies) ==
    IF result.t = "null"
    THEN Throws(TRUE, <<"C","a","n","n","o","t"," ","r","e","a","d"," ","p","r","o","p","e","r",
            "t","i","e","s"," ","o","f"," ","n","u","l","l"," ","(","r","e","a","d","i","n","g",
                    " ","'","r","e","w","r","i","t","t","e","n","C","o","n","t","e","n","t","'",
                            ")">>)
    ELSE
    LET rewrittenContent == Or(Get(result, "rewrittenContent"), Str(<<>>))
        pattern == toLowerCase(targetKeyword)
    IN
    IF rewrittenContent.t # "str"
    THEN Throws(TRUE, <<"r","e","w","r","i","t","t","e","n","C","o","n","t","e","n","t",".","s",
            "p","l","i","t"," ","i","s"," ","n","o","t"," ","a"," ","f","u","n","c","t","i","o",
                    "n">>)
    ELSE IF ~regExpIsValid(pattern) THEN Throws(TRUE, regExpErrorMessage(pattern))
    ELSE
    LET wordCount == splitLength(rewrittenContent.v)
        occurrences == keywordOccurrences(rewrittenContent.v, targetKeyword)
        metaDescription == optSubstring(Get(result, "metaDescription"), MetaDescriptionMax)
        faq == optSlice(Get(result, "faq"), FaqMax, <<"f","a","q">>)
        studies == optSlice(Get(result, "caseStudies"), CaseStudiesMax, <<"c","a","s","e","S",
                "t","u","d","i","e","s">>)
        featuredImage == Get(result, "featuredImage")
        defaultImage == defaultFeaturedImage(targetKeyword)
    IN
    IF metaDescription.threw THEN metaDescription
    ELSE IF faq.threw THEN faq
    ELSE IF studies.threw THEN studies
    ELSE Returns([
        rewrittenContent |-> Get(result, "rewrittenContent"),
        wordCount |-> Num(wordCount),
        keywordDensity |-> Str(keywordDensityOf(occurrences, wordCount)),
        seoScore |-> Num(seoScoreOf(occurrences, wordCount)),
        readabilityScore |-> Str(readabilityOf(wordCount)),
        metaDescription |-> Or(metaDescription.value, defaultMetaDescription(targetKeyword)),
        helpfulnessScore |-> Or(Get(result, "helpfulnessScore"), Num(85)),
        qualityScore |-> Or(Get(result, "qualityScore"), Num(80)),
        eatScore |-> Or(Get(result, "eatScore"), Num(75)),
        structureScore |-> Or(Get(result, "structureScore"), Num(82)),
        aiOptimizationScore |-> Or(Get(result, "aiOptimizationScore"), Num(78)),
        featuredImage |-> Obj([
            title |-> Or(OptGet(featuredImage, "title"), Get(defaultImage, "title")),
            altText |-> Or(OptGet(featuredImage, "altText"), Get(defaultImage, "altText")),
            keywords |-> Or(OptGet(featuredImage, "keywords"), Get(defaultImage, "keywords")) ]),
        faq |-> Or(faq.value, defaultFaq(targetKeyword)),
        caseStudies |-> Or(studies.value, Arr(caseStudies)),
        richContent |-> Or(Get(result, "richContent"), defaultRichContent),
        citations |-> Or(Get(result, "citations"), Arr(<<>>)),
        internalLinking |-> Or(Get(result, "internalLinking"), Arr(<<>>)),
        entities |-> Or(Get(result, "entities"), defaultEntities),
        schemaMarkup |-> Or(Get(result, "schemaMarkup"), defaultSchemaMarkup),
        authorBio |-> Or(Get(result, "authorBio"), defaultAuthorBio(authorName)),
        ctaSection |-> Or(Get(result, "ctaSection"),
                          defaultCtaSection(companyName, targetKeyword)) ])

\* rewriteContentWithSEO from the reply of the endpoint to its return, inside
\* the try: content is response.choices[0].message.content
normalizeReply(content, targetKeyword, authorName, companyName, caseStudies) ==
    IF ~Truthy(content) THEN Throws(TRUE, EmptyReplyMessage)
    ELSE IF jsonParses(content)
         THEN successResult(content.v, targetKeyword, authorName, companyName, caseStudies)
         ELSE parseFailureResult(content.v, targetKeyword, authorName, companyName,
                                 caseStudies)

\* the whole of it: what the caller gets for a reply
afterReply(content, targetKeyword, authorName, companyName, caseStudies) ==
    LET r == normalizeReply(content, targetKeyword, authorName, companyName, caseStudies) IN
    IF r.threw THEN catchAndRethrow(r) ELSE r


RewriteIdle ==
    /\ rpc = "idle"
    /\ args = Undefined
    /\ realCaseStudies = <<>>
    /\ calls = 0
    /\ reply = Undefined
    /\ outcome = Undefined

StorageInit == InitStore /\ RewriteIdle

StorageNext ==
    \/ Tick /\ UNCHANGED rewriteVars
    \/ \E p \in Callers :
         /\ \/ getUser(p)
            \/ getUserByUsername(p)
            \/ createUser(p)
            \/ getConfig(p)
            \/ saveConfig_delete(p)
            \/ saveConfig_insert(p)
            \/ saveConfig_insertFails(p)
            \/ saveRewriteHistory_call(p)
            \/ saveRewriteHistory_insert(p)
            \/ getRewriteHistory(p)
            \/ getStats(p)
         /\ UNCHANGED rewriteVars

StorageSpec == StorageInit /\ [][StorageNext]_vars

(***************************************************************************)
(* The inputs one call of rewriteContentWithSEO is run over.               *)
(***************************************************************************)
MaxKeywordLen == 1    \* keywords of every length up to this over KeywordAlphabet
MaxTextLen == 3       \* texts of every length up to this over TextAlphabet
LongKeywordLen == 128 \* one keyword of this many characters
ManyWords == 301      \* one text of this many words
LongMetaLen == 156    \* one payload metaDescription of this many characters
LongFaqLen == 9       \* one payload faq of this many entries
LongStudiesLen == 4   \* one payload caseStudies of this many entries

BoundedStrings(alphabet, n) == UNION { [1..k -> alphabet] : k \in 0..n }

KeywordAlphabet == {"a", "."}
TextAlphabet == {"a", "A", " "}

Keywords ==
    BoundedStrings(KeywordAlphabet, MaxKeywordLen)
        \cup { <<"t","e","s","t","e">>, <<"A">>, <<"+">>, [i \in 1..LongKeywordLen |-> "a"],
               <<"+","q","u","o","t","a">> }

Texts ==
    BoundedStrings(TextAlphabet, MaxTextLen)
        \cup { <<"T","e","s","t","e"," ","t","e","s","t","e"," ","t","e","s","t","e",".">>,
               <<"a","a","a","a","a","a","a","a","a">>,
               [i \in 1..(2 * ManyWords - 1) |-> IF i % 2 = 1 THEN "a" ELSE " "] }

\* replies that are no JSON document: no text over TextAlphabet is one
NonJsonTexts == Texts \ {<<>>}

Items(n) == [i \in 1..n |-> Obj([title |-> Str(<<Digit[i + 1]>>)])]

WellFormedFields ==
    [ rewrittenContent |-> Str(<<"a"," ","a">>),
      metaDescription |-> Str(<<"d","e","s","c">>),
      helpfulnessScore |-> Num(90),
      qualityScore |-> Num(91),
      eatScore |-> Num(92),
      structureScore |-> Num(93),
      aiOptimizationScore |-> Num(94),
      featuredImage |-> Obj([ title |-> Str(<<"i","m","g">>), altText |-> Str(<<"a","l","t">>),
                              keywords |-> Arr(<<Str(<<"k">>)>>) ]),
      faq |-> Arr(Items(2)),
      caseStudies |-> Arr(Items(1)),
      richContent |-> Obj([ suggestedGraphics |-> Arr(Items(1)),
                            suggestedImages |-> Arr(<<>>),
                            visualElements |-> Arr(<<>>) ]),
      citations |-> Arr(Items(1)),
      internalLinking |-> Arr(Items(1)),
      entities |-> Obj([ brands |-> Arr(<<Str(<<"b">>)>>), people |-> Arr(<<>>),
                         locations |-> Arr(<<>>), concepts |-> Arr(<<>>) ]),
      schemaMarkup |-> Obj([ articleSchema |-> Bool(TRUE), authorSchema |-> Bool(TRUE),
                             faqSchema |-> Bool(TRUE), organizationSchema |-> Bool(FALSE),
                             reviewSchema |-> Bool(FALSE) ]) ]

\* per field of the payload, the values tried for it
FieldValues ==
    [ rewrittenContent |-> { Str(t) : t \in Texts } \cup { Num(5), Num(0), Null, Arr(<<>>) },
      metaDescription |-> { Str(<<"d","e","s",
              "c">>), Str([i \in 1..LongMetaLen |-> "m"]), Str(<<>>),
                            Num(7), Null },
      helpfulnessScore |-> { Num(0), Num(90), Str(<<"h","i","g","h">>) },
      qualityScore |-> { Num(0), Num(90) },
      eatScore |-> { Num(0), Num(90) },
      structureScore |-> { Num(0), Num(90) },
      aiOptimizationScore |-> { Num(0), Num(90) },
      featuredImage |-> { Obj([title |-> Str(<<"i","m","g">>)]), Str(<<"i","m","g">>), Null },
      faq |-> { Arr(<<>>), Arr(Items(LongFaqLen)), Str(<<"p","e","r","g","u","n","t","a",
              "s">>), Obj(NoFields), Num(3) },
      caseStudies |-> { Arr(<<>>), Arr(Items(LongStudiesLen)), Obj(NoFields) },
      richContent |-> { Obj(NoFields), Str(<<"x">>), Null },
      citations |-> { Arr(<<>>), Arr(Items(1)), Str(<<"x">>) },
      internalLinking |-> { Arr(<<>>), Arr(Items(1)), Num(1) },
      entities |-> { Obj(NoFields), Arr(<<>>) },
      schemaMarkup |-> { Obj([articleSchema |-> Bool(FALSE)]), Bool(TRUE) },
      authorBio |-> { Str(<<"b","i","o">>) },
      ctaSection |-> { Obj([title |-> Str(<<"c","t","a">>)]) },
      wordCount |-> { Num(999) },
      keywordDensity |-> { Str(<<"5","0","%">>) },
      seoScore |-> { Num(7) } ]

\* the JSON documents a reply may hold: the empty object, objects with one
\* field, the well-formed object with one field replaced or added, the
\* scenario payload of the specification, and values that are no object
Payloads ==
    { Obj(NoFields), Obj(WellFormedFields),
      Obj([ rewrittenContent |-> Str(<<"T","e","s","t","e"," ","t","e","s","t","e"," ","t","e",
              "s","t","e",".">>),
            metaDescription |-> Str(<<"d","e","s","c">>) ]),
      Null, Num(5), Bool(TRUE), Arr(<<>>), Str(<<"a">>) }
    \cup UNION { { Obj(f :> x) : x \in FieldValues[f] } : f \in DOMAIN FieldValues }
    \cup UNION { { Obj((f :> x) @@ WellFormedFields) : x \in FieldValues[f] } :
                 f \in DOMAIN FieldValues }

\* response.choices[0].message.content
Contents ==
    { Null, Str(<<>>) } \cup { Str(t) : t \in NonJsonTexts } \cup { Json(x) : x \in Payloads }

\* the errors the call of the endpoint may be rejected with; the last is a
\* rejection with a value that is no Error
UpstreamFailures ==
    { Throws(TRUE, <<"4","0","1"," ","I","n","c","o","r","r","e","c","t"," ","A","P","I"," ","k",
            "e","y"," ","p","r","o","v","i","d","e","d">>),
      Throws(TRUE, <<"4","2","9"," ","Y","o","u"," ","e","x","c","e","e","d","e","d"," ","y","o",
              "u","r"," ","c","u","r","r","e","n","t"," ","q","u","o","t","a">>),
      Throws(TRUE, <<"4","2","9"," ","r","a","t","e"," ","l","i","m","i","t"," ","r","e","a","c",
              "h","e","d">>),
      Throws(TRUE, <<"q","u","o","t","a"," ","e","x","c","e","e","d","e","d"," ","f","o","r"," ",
              "t","h","i","s"," ","A","P","I"," ","k","e","y">>),
      Throws(TRUE, <<"r","a","t","e"," ","l","i","m","i","t"," ","r","e","a","c","h","e","d",",",
              " ","q","u","o","t","a"," ","e","x","h","a","u","s","t","e","d">>),
      Throws(TRUE, <<"C","o","n","n","e","c","t","i","o","n"," ","e","r","r","o","r",".">>),
      Throws(FALSE, <<>>) }

\* what getDynamicCaseStudies(webSearchFunction, keyword, content, 3) resolves to
CaseStudyLists == { Items(n) : n \in {0, 1, CaseStudiesMax} }

ArgSets ==
    [ targetKeyword : Keywords,
      companyName : { Undefined, Str(<<"A","c","m","e">>) },
      authorName : { Undefined, Str(<<"A","n","a">>) },
      apiKey : { Undefined, Str(DummyKey), Str(<<"s","k","-","a","r","g">>) },
      envKey : { Undefined, Str(<<"s","k","-","e","n","v">>) },
      webSearchFunction : BOOLEAN ]

(***************************************************************************)
(* One call of rewriteContentWithSEO. originalContent, keywordLink and      *)
(* authorDescription reach only the text of the prompt, and the prompt      *)
(* reaches only the endpoint, whose reply is any of Contents.               *)
(***************************************************************************)
InitRewrite ==
    /\ rpc = "start"
    /\ args \in ArgSets
    /\ realCaseStudies = <<>>
    /\ calls = 0
    /\ reply = Undefined
    /\ outcome = Undefined

\* after the case studies: generateValidInternalLinks (its list goes into
\* the prompt), the credential check, then the request to the endpoint
afterCaseStudies(found) ==
    /\ realCaseStudies' = found
    /\ IF credentialMissing(openaiApiKeyOf(args.apiKey, args.envKey))
       THEN /\ outcome' = catchAndRethrow(Throws(TRUE, ConfigurationErrorMessage))
            /\ rpc' = "done"
            /\ calls' = calls
       ELSE /\ outcome' = outcome
            /\ rpc' = "awaitReply"
            /\ calls' = calls + 1
    /\ UNCHANGED <<args, reply>>

\* the call without a webSearchFunction: runs to the request or to the throw
rewrite_start ==
    /\ rpc = "start"
    /\ ~args.webSearchFunction
    /\ afterCaseStudies(<<>>)

\* the call with a webSearchFunction: suspended on getDynamicCaseStudies
rewrite_startLookup ==
    /\ rpc = "start"
    /\ args.webSearchFunction
    /\ rpc' = "awaitCaseStudies"
    /\ UNCHANGED <<args, realCaseStudies, calls, reply, outcome>>

rewrite_lookupReturns ==
    /\ rpc = "awaitCaseStudies"
    /\ \E found \in CaseStudyLists : afterCaseStudies(found)

\* the lookup throws: logged, realCaseStudies stays empty
rewrite_lookupThrows ==
    /\ rpc = "awaitCaseStudies"
    /\ afterCaseStudies(<<>>)

\* the endpoint replies
rewrite_reply ==
    /\ rpc = "awaitReply"
    /\ \E content \in Contents :
         /\ reply' = content
         /\ outcome' = afterReply(content, args.targetKeyword, args.authorName,
                                  args.companyName, realCaseStudies)
    /\ rpc' = "done"
    /\ UNCHANGED <<args, realCaseStudies, calls>>

\* the call of the endpoint is rejected
rewrite_upstreamFails ==
    /\ rpc = "awaitReply"
    /\ \E error \in UpstreamFailures :
         /\ reply' = error
         /\ outcome' = catchAndRethrow(error)
    /\ rpc' = "done"
    /\ UNCHANGED <<args, realCaseStudies, calls>>

StoreIdle == InitStore

RewriteInit == InitRewrite /\ StoreIdle

RewriteNext ==
    /\ \/ rewrite_start
       \/ rewrite_startLookup
       \/ rewrite_lookupReturns
       \/ rewrite_lookupThrows
       \/ rewrite_reply
       \/ rewrite_upstreamFails
    /\ UNCHANGED storeVars

RewriteSpec == RewriteInit /\ [][RewriteNext]_vars


(***************************************************************************)
(* Claims about the persistence adapter, checked under StorageSpec.        *)
(***************************************************************************)
Reverse(s) == [i \in 1..Len(s) |-> s[Len(s) + 1 - i]]

\* C2: in every reachable state of the store the number of config records is
\* at most one, also when the delete and insert steps of two saveConfig
\* calls interleave.
C2_AtMostOneConfig == Cardinality(configs) <= 1

\* C3: after saveConfig calls that each completed before the next one
\* started, the store holds exactly one config record, the one written by
\* the last saveConfig, and getConfig returns exactly that record; with no
\* saveConfig completed, getConfig returns the absent marker.
C3_SequentialSaveThenGet ==
    (cfgClean /\ SaveConfigInFlight = {}) =>
        LET expected == IF cfgDone = <<>> THEN Undefined ELSE cfgDone[Len(cfgDone)] IN
        /\ configs = (IF cfgDone = <<>> THEN {} ELSE {expected})
        /\ getConfigResults = {expected}
        /\ ret.op = "getConfig" => ret.val = expected

\* C3 witness: two saveConfig calls with different data ran one after the
\* other and a later getConfig returned the second record.
C3_Witness ==
    /\ cfgClean
    /\ SaveConfigInFlight = {}
    /\ Len(cfgDone) >= 2
    /\ cfgDone[1].data # cfgDone[2].data
    /\ ret.op = "getConfig"
    /\ ret.val = cfgDone[Len(cfgDone)]

\* C9: getRewriteHistory(limit) returns exactly the min(limit, n) most
\* recently created of the n entries saved so far, newest first and
\* unchanged (limit 10 when none is given), and no operation removes or
\* alters a saved entry.
C9_HistoryNewestFirst ==
    /\ rewriteHistory = { histDone[i] : i \in 1..Len(histDone) }
    /\ ret.op = "getRewriteHistory" =>
         ret.val = Limit(Reverse(histDone),
                         IF ret.limit = Undefined THEN 10 ELSE ret.limit.v)

(***************************************************************************)
(* Claims about rewriteContentWithSEO, checked under RewriteSpec.          *)
(***************************************************************************)
\* the call is over and the endpoint had answered with a reply body
Replied == rpc = "done" /\ "t" \in DOMAIN reply /\ reply # Undefined
Returned == rpc = "done" /\ ~outcome.threw

\* the rewritten text of a returned result, empty when the result holds none
FinalText ==
    IF outcome.value.rewrittenContent.t = "str" THEN outcome.value.rewrittenContent.v
    ELSE <<>>

\* the number of whitespace-separated tokens of s
TokenCount(s) ==
    Cardinality({ i \in 1..Len(s) :
                    ~IsWhitespace(s[i]) /\ (i = 1 \/ IsWhitespace(s[i - 1])) })

\* the number of case-insensitive literal occurrences of keyword in text
LiteralOccurrences(text, keyword) ==
    LET t == toLowerCase(text)
        k == toLowerCase(keyword)
        starts == { i \in 1..(Len(t) - Len(k) + 1) : SubSeq(t, i, i + Len(k) - 1) = k }
    IN IF Len(k) <= 1 THEN Cardinality(starts) ELSE scanCount(starts, Len(k), 1)

\* C1: once the endpoint has returned a reply, whatever its body,
\* rewriteContentWithSEO returns a result record and raises no error.
C1_NoErrorAfterReply == Replied => ~outcome.threw

\* C4: with no usable credential the call fails with the configuration
\* error, the caller sees exactly the configuration-error message, and the
\* endpoint is not called.
C4_ConfigurationErrorVerbatim ==
    (rpc = "done" /\ credentialMissing(openaiApiKeyOf(args.apiKey, args.envKey))) =>
        /\ outcome.threw
        /\ outcome.message = ConfigurationErrorMessage
        /\ calls = 0

\* C5: in every returned result authorBio is present exactly when an author
\* name was supplied and ctaSection exactly when a company name was
\* supplied, whatever the payload holds.
C5_OptionalSectionsFollowInputs ==
    Returned =>
        /\ (outcome.value.authorBio # Undefined) <=> Truthy(args.authorName)
        /\ (outcome.value.ctaSection # Undefined) <=> Truthy(args.companyName)

\* C6: in every returned result wordCount is the number of
\* whitespace-separated tokens of the rewritten text, and seoScore is
\* occurrences * 10 + (20 if wordCount > 300 else 10) clamped to 1..100,
\* occurrences being the case-insensitive literal occurrences of the keyword.
C6_MetricsFromFinalText ==
    Returned =>
        LET words == TokenCount(FinalText)
            occurrences == LiteralOccurrences(FinalText, args.targetKeyword)
        IN /\ outcome.value.wordCount = Num(words)
           /\ outcome.value.seoScore =
                Num(Min(100, Max(1, occurrences * 10 + (IF words > 300 THEN 20 ELSE 10))))
           /\ outcome.value.seoScore.v \in 1..100

\* C7: keywordDensity is (occurrences / wordCount) * 100 with exactly one
\* fractional digit and a percent sign, and is "0%" when the rewritten text
\* is empty.
C7_KeywordDensityFormat ==
    Returned =>
        LET density == outcome.value.keywordDensity.v
            words == outcome.value.wordCount.v
            occurrences == keywordOccurrences(FinalText, args.targetKeyword)
        IN IF FinalText = <<>> THEN density = <<"0","%">>
           ELSE /\ Len(density) >= 4
                /\ density[Len(density)] = "%"
                /\ density[Len(density) - 2] = "."
                /\ \A i \in (1..(Len(density) - 3)) \cup {Len(density) - 1} :
                     \E d \in 1..10 : Digit[d] = density[i]
                /\ density = toFixed1Percent(occurrences, words) \o <<"%">>

\* C8: in every returned result metaDescription has at most 155 characters,
\* faq at most 8 entries and caseStudies at most 3 entries.
C8_LengthCaps ==
    Returned =>
        /\ Len(outcome.value.metaDescription.v) <= 155
        /\ Len(outcome.value.faq.v) <= 8
        /\ Len(outcome.value.caseStudies.v) <= 3

\* the type a field of the result must have
FieldType ==
    [ rewrittenContent |-> "str", metaDescription |-> "str",
      helpfulnessScore |-> "num", qualityScore |-> "num", eatScore |-> "num",
      structureScore |-> "num", aiOptimizationScore |-> "num",
      featuredImage |-> "obj", faq |-> "arr", caseStudies |-> "arr",
      richContent |-> "obj", citations |-> "arr", internalLinking |-> "arr",
      entities |-> "obj", schemaMarkup |-> "obj" ]

\* the fields whose value is taken over whole when the payload's is well-typed
TakenOver ==
    { "helpfulnessScore", "qualityScore", "eatScore", "structureScore",
      "aiOptimizationScore", "richContent", "citations", "internalLinking",
      "entities", "schemaMarkup" }

\* C10: on the parse-success path every expected field of the result has its
\* type, and is the payload's value when that is present and well-typed (a
\* score of 0 and an empty list included).
C10_FieldsPayloadOrDefault ==
    (Returned /\ reply.t = "json") =>
        /\ \A f \in DOMAIN FieldType : outcome.value[f].t = FieldType[f]
        /\ \A f \in TakenOver :
             Get(reply.v, f).t = FieldType[f] => outcome.value[f] = Get(reply.v, f)

\* the endpoint was called and the call was rejected
UpstreamFailed == rpc = "done" /\ "threw" \in DOMAIN reply

\* the message the caller is to get for a failure with this text: the first
\* of the three tests that matches, else the text behind the generic prefix
ClassifiedAs(text) ==
    IF includes(text, <<"A","P","I"," ","k","e","y">>) THEN ApiKeyMessage
    ELSE IF includes(text, <<"q","u","o","t","a">>) THEN QuotaMessage
    ELSE IF includes(text, <<"r","a","t","e"," ","l","i","m","i","t">>) THEN RateLimitMessage
    ELSE GenericPrefix \o text

\* a message the classification of upstream failures produces
IsClassifiedMessage(message) ==
    \/ message \in {ApiKeyMessage, QuotaMessage, RateLimitMessage}
    \/ /\ Len(message) >= Len(GenericPrefix)
       /\ SubSeq(message, 1, Len(GenericPrefix)) = GenericPrefix

\* C11: when the call of the endpoint fails, the endpoint was called exactly
\* once and the caller gets one error, chosen by the first matching test on
\* the failure text in the order "API key", "quota", "rate limit", else the
\* generic message carrying the original text; an error that is no failure
\* of the endpoint call is not turned into one of these messages.
C11_UpstreamFailureClassified ==
    /\ UpstreamFailed =>
         /\ calls = 1
         /\ outcome.threw
         /\ outcome.message = ClassifiedAs(reply.message)
    /\ (rpc = "done" /\ outcome.threw /\ ~UpstreamFailed) =>
         ~IsClassifiedMessage(outcome.message)

(***************************************************************************)
(* Claims about the gap between saveConfig's delete and its insert,        *)
(* checked under StorageSpec.                                              *)
(***************************************************************************)
\* the saveConfig calls that removed a config record and have not inserted yet
InGap == { p \in Callers : spc[p] = "saveConfig_insert" /\ local[p].deleted # {} }

\* this step is the saveConfig of p stopping with its insert not done
StopsInGap(p) ==
    /\ p \in InGap
    /\ spc'[p] = "idle"
    /\ ret'.op = "saveConfig"
    /\ "threw" \in DOMAIN ret'

\* this step is the delete of some saveConfig
IsSaveConfigDelete == \E p \in Callers : spc[p] = "idle" /\ spc'[p] = "saveConfig_insert"

\* this step is a getConfig returning
IsGetConfig == ret' # ret /\ ret'.op = "getConfig"

NoConfig == configs = {} /\ getConfigResults = {Undefined}

\* C12: saveConfig is not atomic. While a saveConfig that removed a config
\* record is between its delete and its insert, and when it stops there (its
\* insert fails), the store holds no config record and a concurrent or
\* following getConfig returns the absent marker; and no step of the adapter
\* other than the delete of saveConfig makes a stored config record disappear.
C12_GapLeavesNoConfig ==
    /\ [](InGap # {} => NoConfig)
    /\ [][/\ \A p \in Callers : StopsInGap(p) => NoConfig'
          /\ (configs = {} /\ IsGetConfig) => ret'.val = Undefined
          /\ (configs \ configs' # {}) => IsSaveConfigDelete]_vars

====
